---------------------------- MODULE Spec2Model ----------------------------
(***************************************************************************)
(* Model of the semi-auto shooter (src/src/ai_shooting): the actor models  *)
(* of entities.py, the decision engine of ai.py and the simulation loop of *)
(* game.py.                                                                *)
(*                                                                         *)
(* Numbers.  The program computes with floats; the model computes with     *)
(* integers in fixed point:                                                *)
(*   time       milliseconds (game.py:44 divides the clock's integer       *)
(*              milliseconds by 1000.0), dt and the four player timers;    *)
(*   pools      thousandths of a point: hp, energy, heat, special and      *)
(*              every damage value v of the code is v * Milli here;        *)
(*   position   thousandths of a pixel; velocity thousandths of a pixel    *)
(*              per second; a direction is a vector of length Milli; a     *)
(*              speed and a radius are whole pixels (per second).          *)
(* A product or quotient that is no whole number of thousandths is rounded *)
(* down; a length is the integer square root.                              *)
(***************************************************************************)
EXTENDS Integers, Sequences, FiniteSets, TLC

VARIABLES
    player,          \* Game.player: the Player object (entities.py:41-51)
    enemy,           \* Game.enemy: the Enemy object (entities.py:129-136)
    player_bullets,  \* Game.player_bullets (game.py:33)
    enemy_bullets,   \* Game.enemy_bullets (game.py:34)
    ai,              \* Game.ai: the AIController (ai.py:82-92)
    order_bias,      \* Game.order_bias (game.py:36)
    input_state,     \* Game.input_state (game.py:35)
    ai_timer,        \* Game.ai_timer, in microseconds (game.py:39)
    last,            \* the last call made: its name, argument and result
    ncalls,          \* number of calls made so far
    hist,            \* history: the time between the calls that took effect
    base_weights     \* the module's table BASE_WEIGHTS (ai.py:26-34)

vars == <<player, enemy, player_bullets, enemy_bullets, ai, order_bias,
          input_state, ai_timer, last, ncalls, hist, base_weights>>

Milli == 1000

\* ------------------------------------------------------------------ bounds
\* Calls made on the Player in the specification of its methods.
MaxCalls == 5
\* Hits applied to the Enemy in the enemy specification.
MaxHits == 56
\* Calls made on a player that has played for a while.
MaxActionCalls == 4
\* The time recorded by the history stops growing here, in milliseconds; it
\* is above every cooldown of the program.
SinceCap == 2000

\* ----------------------------------------------------------------- helpers
Max(a, b) == IF a >= b THEN a ELSE b
Min(a, b) == IF a <= b THEN a ELSE b

Vec(x, y) == [x |-> x, y |-> y]
VecAdd(a, b) == Vec(a.x + b.x, a.y + b.y)
VecSub(a, b) == Vec(a.x - b.x, a.y - b.y)
\* a * k / Milli rounded down, computed without the intermediate product a * k
MulMilli(a, k) == (a \div Milli) * k + ((a % Milli) * k) \div Milli
\* v * k for a vector in thousandths and a factor k in thousandths
VecScaleMilli(v, k) == Vec(MulMilli(v.x, k), MulMilli(v.y, k))
\* v * n for an integer n
VecTimes(v, n) == Vec(v.x * n, v.y * n)

RECURSIVE SqrtBetween(_, _, _)
\* The largest r in lo..hi with r * r <= n, for lo * lo <= n.
SqrtBetween(n, lo, hi) ==
    IF lo >= hi THEN lo
    ELSE LET mid == (lo + hi + 1) \div 2
         IN  IF mid * mid <= n THEN SqrtBetween(n, mid, hi)
             ELSE SqrtBetween(n, lo, mid - 1)

ISqrt(n) == SqrtBetween(n, 0, 46340)

Abs(a) == IF a >= 0 THEN a ELSE -a

\* The element of a set of one element: {F(x) : x \in {e}} computes e once
\* and names its value x, as a local variable of the code does.
Only(S) == CHOOSE x \in S : TRUE

\* Vector2.length() of a vector in thousandths.  The squares of a long vector
\* are taken in tenths of a pixel, to stay within the integers of the checker.
Length(v) ==
    IF Abs(v.x) <= 30 * Milli /\ Abs(v.y) <= 30 * Milli
    THEN ISqrt(v.x * v.x + v.y * v.y)
    ELSE 100 * ISqrt((v.x \div 100) * (v.x \div 100) + (v.y \div 100) * (v.y \div 100))

\* Vector2.normalize() of a vector of length above 0: a vector of length Milli.
Normalize(v) ==
    LET l == Length(v) IN Vec((v.x * Milli) \div l, (v.y * Milli) \div l)

\* Vector2.rotate(90)
Rotate90(v) == Vec(-v.y, v.x)

\* int() of a value in thousandths: the whole part, rounded toward 0.
Trunc(a) == IF a >= 0 THEN a \div Milli ELSE -((-a) \div Milli)

\* pygame.Rect(int(x - radius), int(y - radius), radius * 2, radius * 2), in
\* whole pixels.
Rect(position, radius) ==
    [left |-> Trunc(position.x - radius * Milli),
     top |-> Trunc(position.y - radius * Milli),
     width |-> radius * 2, height |-> radius * 2]

\* Rect.collidepoint: the point's coordinates are taken as whole pixels; the
\* right and bottom edges are outside.
collidepoint(rect, point) ==
    /\ rect.left <= Trunc(point.x) /\ Trunc(point.x) < rect.left + rect.width
    /\ rect.top <= Trunc(point.y) /\ Trunc(point.y) < rect.top + rect.height

\* ------------------------------------------------------------------ Bullet
Bullet(position, velocity, damage, radius, friendly) ==
    [position |-> position, velocity |-> velocity, damage |-> damage,
     radius |-> radius, friendly |-> friendly]

\* ------------------------------------------------------------- PlayerStats
PlayerStats ==
    [hp |-> 100 * Milli, max_hp |-> 100 * Milli,
     energy |-> 100 * Milli, max_energy |-> 100 * Milli,
     heat |-> 0, max_heat |-> 100 * Milli,
     special |-> 0, max_special |-> 100 * Milli]

\* ------------------------------------------------------------------ Player
Player_init(position) ==
    [position |-> position, velocity |-> Vec(0, 0), speed |-> 170,
     stats |-> PlayerStats, radius |-> 18,
     shot_timer |-> 0, strong_timer |-> 0, step_cooldown |-> 0,
     invincible |-> 0]

\* Countdown without its guard: the timer loses dt whatever its value.
Countdown_unguarded(timer, dt) == timer - dt

\* A timer above zero loses dt; a timer at or below zero is left alone.
Countdown(timer, dt) == IF timer > 0 THEN timer - dt ELSE timer

\* Player.update with the heat decay not floored at 0.
Player_update_unfloored(p, dt) ==
    LET moved == VecAdd(p.position, VecScaleMilli(p.velocity, dt))
        st == p.stats
    IN  [p EXCEPT
            !.position = Vec(Max(30 * Milli, Min(610 * Milli, moved.x)),
                             Max(40 * Milli, Min(440 * Milli, moved.y))),
            !.stats = [st EXCEPT
                !.energy = Min(st.max_energy, st.energy + 20 * dt),
                !.heat = st.heat - 15 * dt,
                !.special = Min(st.max_special, st.special + 5 * dt)],
            !.shot_timer = Countdown(p.shot_timer, dt),
            !.strong_timer = Countdown(p.strong_timer, dt),
            !.step_cooldown = Countdown(p.step_cooldown, dt),
            !.invincible = Countdown(p.invincible, dt)]

Player_update(p, dt) ==
    LET moved == VecAdd(p.position, VecScaleMilli(p.velocity, dt))
        st == p.stats
    IN  [p EXCEPT
            !.position = Vec(Max(30 * Milli, Min(610 * Milli, moved.x)),
                             Max(40 * Milli, Min(440 * Milli, moved.y))),
            !.stats = [st EXCEPT
                !.energy = Min(st.max_energy, st.energy + 20 * dt),
                !.heat = Max(0, st.heat - 15 * dt),
                !.special = Min(st.max_special, st.special + 5 * dt)],
            !.shot_timer = Countdown(p.shot_timer, dt),
            !.strong_timer = Countdown(p.strong_timer, dt),
            !.step_cooldown = Countdown(p.step_cooldown, dt),
            !.invincible = Countdown(p.invincible, dt)]

\* Player.take_damage without the invincibility test.
Player_take_damage_always(p, dmg) ==
    [p EXCEPT !.stats.hp = Max(0, p.stats.hp - dmg)]

Player_take_damage(p, dmg) ==
    IF p.invincible > 0
    THEN p
    ELSE [p EXCEPT !.stats.hp = Max(0, p.stats.hp - dmg)]

\* can_shoot answering yes whatever the timer.
can_shoot_always(p) == TRUE

can_shoot(p) == p.shot_timer <= 0

can_strong(p) == p.strong_timer <= 0 /\ p.stats.energy >= 35 * Milli

can_step(p) == p.step_cooldown <= 0

\* Each action method returns the player after the call and the projectiles
\* it returns (out).
shoot(p) ==
    IF ~can_shoot(p)
    THEN [p |-> p, out |-> <<>>]
    ELSE [p |-> [p EXCEPT
                    !.shot_timer = 180,
                    !.stats.heat = Min(p.stats.max_heat, p.stats.heat + 8 * Milli),
                    !.stats.energy = Min(p.stats.max_energy, p.stats.energy + 5 * Milli)],
          out |-> <<Bullet(p.position, Vec(0, -420 * Milli), 6 * Milli, 4, TRUE)>>]

\* strong_attack testing the timer alone, not the energy.
strong_attack_any_energy(p) ==
    IF p.strong_timer > 0
    THEN [p |-> p, out |-> <<>>]
    ELSE [p |-> [p EXCEPT
                    !.strong_timer = 900,
                    !.stats.energy = p.stats.energy - 35 * Milli,
                    !.stats.heat = Min(p.stats.max_heat, p.stats.heat + 25 * Milli)],
          out |-> [i \in 1..3 |->
                     Bullet(VecAdd(p.position,
                                   Vec(<<-25, 0, 25>>[i] * Milli, -5 * Milli)),
                            Vec(0, -520 * Milli), 22 * Milli, 6, TRUE)]]

strong_attack(p) ==
    IF ~can_strong(p)
    THEN [p |-> p, out |-> <<>>]
    ELSE [p |-> [p EXCEPT
                    !.strong_timer = 900,
                    !.stats.energy = p.stats.energy - 35 * Milli,
                    !.stats.heat = Min(p.stats.max_heat, p.stats.heat + 25 * Milli)],
          out |-> [i \in 1..3 |->
                     Bullet(VecAdd(p.position,
                                   Vec(<<-25, 0, 25>>[i] * Milli, -5 * Milli)),
                            Vec(0, -520 * Milli), 22 * Milli, 6, TRUE)]]

step(p, direction) ==
    IF ~can_step(p)
    THEN p
    ELSE [p EXCEPT
            !.position = VecAdd(p.position, VecTimes(direction, 120)),
            !.velocity = VecTimes(direction, 220),
            !.step_cooldown = 1600,
            !.invincible = 350]

\* range(-45, 50, 15)
SpecialAngles == <<-45, -30, -15, 0, 15, 30, 45>>

\* sin(angle) * 420 and -cos(angle) * 420 in thousandths, rounded to nearest
SpecialVelocity(angle) ==
    CASE angle = -45 -> Vec(-296985, -296985)
      [] angle = -30 -> Vec(-210000, -363731)
      [] angle = -15 -> Vec(-108704, -405689)
      [] angle = 0   -> Vec(0, -420000)
      [] angle = 15  -> Vec(108704, -405689)
      [] angle = 30  -> Vec(210000, -363731)
      [] angle = 45  -> Vec(296985, -296985)

\* use_special with the energy not floored at 0.
use_special_unfloored(p) ==
    IF p.stats.special < p.stats.max_special
    THEN [p |-> p, out |-> <<>>]
    ELSE [p |-> [p EXCEPT
                    !.stats.special = 0,
                    !.stats.energy = p.stats.energy - 40 * Milli,
                    !.stats.heat = Min(p.stats.max_heat, p.stats.heat + 40 * Milli)],
          out |-> [i \in 1..Len(SpecialAngles) |->
                     Bullet(p.position, SpecialVelocity(SpecialAngles[i]),
                            18 * Milli, 6, TRUE)]]

use_special(p) ==
    IF p.stats.special < p.stats.max_special
    THEN [p |-> p, out |-> <<>>]
    ELSE [p |-> [p EXCEPT
                    !.stats.special = 0,
                    !.stats.energy = Max(0, p.stats.energy - 40 * Milli),
                    !.stats.heat = Min(p.stats.max_heat, p.stats.heat + 40 * Milli)],
          out |-> [i \in 1..Len(SpecialAngles) |->
                     Bullet(p.position, SpecialVelocity(SpecialAngles[i]),
                            18 * Milli, 6, TRUE)]]

\* ------------------------------------------------------------------- Enemy
Enemy_init(position, hp) ==
    [position |-> position, hp |-> hp, speed |-> 50, radius |-> 20,
     shoot_timer |-> 0]

\* Enemy.take_damage without the floor at 0.
Enemy_take_damage_unfloored(e, dmg) == [e EXCEPT !.hp = e.hp - dmg]

Enemy_take_damage(e, dmg) == [e EXCEPT !.hp = Max(0, e.hp - dmg)]

alive(e) == e.hp > 0


\* Enemy.update: the enemy after the call and the projectiles it returns.
Enemy_update(e, dt, target) ==
    LET direction == VecSub(target, e.position)
        position == IF Length(direction) > Milli
                    THEN VecAdd(e.position,
                                VecScaleMilli(Normalize(direction),
                                              (e.speed * dt * 4) \div 10))
                    ELSE e.position
        timer == e.shoot_timer - dt
    IN  IF timer <= 0
        THEN [e |-> [e EXCEPT !.position = position, !.shoot_timer = 750],
              out |-> [i \in 1..4 |->
                         LET offset == <<-40, -10, 10, 40>>[i]
                         IN  Bullet(VecAdd(position, Vec(offset * Milli, 20 * Milli)),
                                    Vec(offset * 900, 210 * Milli),
                                    12 * Milli, 6, FALSE)]]
        ELSE [e |-> [e EXCEPT !.position = position, !.shoot_timer = timer],
              out |-> << >>]

\* Bullet.update leaving the projectile where it is.
Bullet_update_still(b, dt) == b

\* Bullet.update
Bullet_update(b, dt) ==
    [b EXCEPT !.position = VecAdd(b.position, VecScaleMilli(b.velocity, dt))]

\* ----------------------------------------------------------- Personality
AGGRESSIVE == "Aggressive"
PRUDENT == "Prudent"
SKITTISH == "Skittish"
Personality == {AGGRESSIVE, PRUDENT, SKITTISH}

\* ------------------------------------------------------------------ Action
NORMAL_SHOT == "normal_shot"
STRONG_ATTACK == "strong_attack"
APPROACH == "approach"
KEEP_DISTANCE == "keep_distance"
EVADE == "evade"
STEP == "step"
SPECIAL == "special"

\* The enumeration order of Action, which is also the insertion order of
\* BASE_WEIGHTS and so the order in which the weights are walked.
ActionOrder ==
    <<NORMAL_SHOT, STRONG_ATTACK, APPROACH, KEEP_DISTANCE, EVADE, STEP, SPECIAL>>

Action == {ActionOrder[i] : i \in 1..Len(ActionOrder)}

BASE_WEIGHTS ==
    [a \in Action |->
        CASE a = NORMAL_SHOT   -> 25 * Milli
          [] a = STRONG_ATTACK -> 10 * Milli
          [] a = APPROACH      -> 20 * Milli
          [] a = KEEP_DISTANCE -> 20 * Milli
          [] a = EVADE         -> 15 * Milli
          [] a = STEP          -> 5 * Milli
          [] a = SPECIAL       -> 5 * Milli]

\* --------------------------------------------------------------- OrderBias
\* OrderBias(values): __post_init__ gives every action missing from values
\* the entry 0.
\* OrderBias(values) giving every action missing from values the entry 1.
OrderBias_default_one(values) ==
    [a \in Action |-> IF a \in DOMAIN values THEN values[a] ELSE Milli]

OrderBias(values) ==
    [a \in Action |-> IF a \in DOMAIN values THEN values[a] ELSE 0]

set_bias(bias, action, value) == [bias EXCEPT ![action] = value]

clamp(value, minimum, maximum) == Max(minimum, Min(value, maximum))

\* ------------------------------------------------------------ AIController
\* rng_seeds counts the times the random source was created or seeded: once
\* by the constructor (ai.py:91-92).
AIController_init(personality, bias, base_delay) ==
    [personality |-> personality, order_bias |-> bias, base_delay |-> base_delay,
     rng_seeds |-> 1]

set_personality(ctrl, personality) == [ctrl EXCEPT !.personality = personality]

set_order_bias(ctrl, bias) == [ctrl EXCEPT !.order_bias = bias]

\* w * m for a multiplier m in thousandths
Times(w, m) == (w * m) \div Milli

\* The situational adjustments (ai.py:104-116), from the module's table.
SituationWeights(ctx) ==
    LET w0 == base_weights
        w1 == IF ctx.threat_level > 700
              THEN [w0 EXCEPT ![EVADE] = @ + 40 * Milli, ![STEP] = @ + 15 * Milli]
              ELSE w0
        w2 == IF ctx.energy < 20 * Milli
              THEN [w1 EXCEPT ![STRONG_ATTACK] = @ - 30 * Milli]
              ELSE w1
        w3 == IF ctx.heat > 70 * Milli
              THEN [w2 EXCEPT ![NORMAL_SHOT] = @ - 20 * Milli,
                              ![STRONG_ATTACK] = @ - 20 * Milli,
                              ![EVADE] = @ + 20 * Milli]
              ELSE w2
        w4 == IF ctx.hp_ratio < 300
              THEN [w3 EXCEPT ![KEEP_DISTANCE] = @ + 20 * Milli]
              ELSE w3
    IN  IF ctx.special >= 100 * Milli
        THEN [w4 EXCEPT ![SPECIAL] = @ + 15 * Milli]
        ELSE w4

\* The personality profile (ai.py:123-137).
PersonalityWeights(personality, w) ==
    CASE personality = AGGRESSIVE ->
            [w EXCEPT ![NORMAL_SHOT] = Times(@, 1300),
                      ![STRONG_ATTACK] = Times(@, 1300),
                      ![EVADE] = Times(@, 700),
                      ![KEEP_DISTANCE] = Times(@, 800)]
      [] personality = PRUDENT ->
            [w EXCEPT ![EVADE] = Times(@, 1300),
                      ![KEEP_DISTANCE] = Times(@, 1100),
                      ![NORMAL_SHOT] = Times(@, 800),
                      ![STRONG_ATTACK] = Times(@, 700)]
      [] personality = SKITTISH ->
            [w EXCEPT ![KEEP_DISTANCE] = @ + 20 * Milli,
                      ![SPECIAL] = @ - 15 * Milli,
                      ![APPROACH] = Times(@, 700),
                      ![NORMAL_SHOT] = Times(@, 800)]
      [] OTHER -> w

\* No veto: the weights pass unchanged.
StepVeto_none(ctx, w) == w

\* The hard veto of Step (ai.py:139-140).
StepVeto(ctx, w) == IF ~ctx.cooldown_ready THEN [w EXCEPT ![STEP] = 0] ELSE w

\* The weights handed to the weighted choice (ai.py:101-144).
Weights(ctrl, ctx) ==
    LET situational == SituationWeights(ctx)
        ordered == [a \in Action |-> situational[a] + ctrl.order_bias[a]]
        profiled == PersonalityWeights(ctrl.personality, ordered)
        vetoed == StepVeto(ctx, profiled)
    IN  [a \in Action |-> Max(0, vetoed[a])]

RECURSIVE SumUpTo(_, _)
\* The sum of the weights of the first n actions in enumeration order.
SumUpTo(weights, n) ==
    IF n = 0 THEN 0 ELSE SumUpTo(weights, n - 1) + weights[ActionOrder[n]]

Total(weights) == SumUpTo(weights, Len(ActionOrder))

RECURSIVE Walk(_, _, _)
\* The loop of _weighted_choice from the i-th action on (ai.py:159-163).
Walk(weights, target, i) ==
    IF i > Len(ActionOrder) THEN KEEP_DISTANCE
    ELSE IF target <= SumUpTo(weights, i) THEN ActionOrder[i]
    ELSE Walk(weights, target, i + 1)

\* _weighted_choice without the test of the total.
weighted_choice_unguarded(weights, target) == Walk(weights, target, 1)

\* _weighted_choice with the value target drawn by uniform(0, total).
weighted_choice(weights, target) ==
    IF Total(weights) <= 0 THEN KEEP_DISTANCE ELSE Walk(weights, target, 1)

\* The value uniform(0, total) returns.  The result of the walk is constant
\* between two consecutive cumulative sums, so a draw is one of 0 and the
\* seven cumulative sums (each standing for the interval it closes; the last
\* is total): draw 0 is the value 0, draw n the n-th cumulative sum.
Draws == 0..Len(ActionOrder)

Target(weights, draw) == IF draw = 0 THEN 0 ELSE SumUpTo(weights, draw)

\* The delay without its floor of 0.05 s.
Delay_unfloored(ctrl, ctx, jitter) ==
    ctrl.base_delay * (Milli - clamp(ctx.sync, 0, 900)) + jitter

\* The delay of a choice in microseconds (ai.py:148-150); jitter is the value
\* drawn by uniform(-0.08, 0.08), in microseconds.
Delay(ctrl, ctx, jitter) ==
    Max(50 * Milli, ctrl.base_delay * (Milli - clamp(ctx.sync, 0, 900)) + jitter)

\* think adjusting the module's table in place instead of a copy of it.
think_in_place(ctrl, ctx, draw, jitter) ==
    Only({[action |-> weighted_choice(weights, Target(weights, draw)),
           delay |-> Delay(ctrl, ctx, jitter),
           weights |-> weights, ctx |-> ctx, table |-> weights]
          : weights \in {Weights(ctrl, ctx)}})

\* think with the two values it draws.  The AIChoice is (action, delay); the
\* weights handed to the weighted choice are returned with it, and so are
\* the context and the module's table as the call leaves them: think works
\* on a copy of the table (ai.py:101) and assigns no field of the context.
think(ctrl, ctx, draw, jitter) ==
    Only({[action |-> weighted_choice(weights, Target(weights, draw)),
           delay |-> Delay(ctrl, ctx, jitter),
           weights |-> weights, ctx |-> ctx, table |-> base_weights]
          : weights \in {Weights(ctrl, ctx)}})

\* ------------------------------------------------- bias_from_instruction
\* An instruction name is a string, modelled as the sequence of its
\* characters' ASCII codes.
LowerChar(c) == IF c >= 65 /\ c <= 90 THEN c + 32 ELSE c

lower(name) == [i \in 1..Len(name) |-> LowerChar(name[i])]

S_balanced == <<98, 97, 108, 97, 110, 99, 101, 100>>
S_aggressive == <<97, 103, 103, 114, 101, 115, 115, 105, 118, 101>>
S_defensive == <<100, 101, 102, 101, 110, 115, 105, 118, 101>>
S_focus == <<102, 111, 99, 117, 115>>
S_special == <<115, 112, 101, 99, 105, 97, 108>>

\* bias_from_instruction with an unknown name answered by the all-zero table
\* instead of the ValueError.
bias_from_instruction_lenient(name) ==
    LET n == lower(name)
        bias == OrderBias(<< >>)
    IN  CASE n = S_aggressive ->
                [ok |-> TRUE,
                 bias |-> set_bias(set_bias(set_bias(bias,
                            NORMAL_SHOT, 25 * Milli),
                            STRONG_ATTACK, 35 * Milli),
                            APPROACH, 15 * Milli)]
          [] n = S_defensive ->
                [ok |-> TRUE,
                 bias |-> set_bias(set_bias(set_bias(bias,
                            EVADE, 30 * Milli),
                            KEEP_DISTANCE, 25 * Milli),
                            STEP, 20 * Milli)]
          [] n = S_focus ->
                [ok |-> TRUE,
                 bias |-> set_bias(set_bias(bias,
                            NORMAL_SHOT, 10 * Milli),
                            STRONG_ATTACK, 10 * Milli)]
          [] n = S_special ->
                [ok |-> TRUE, bias |-> set_bias(bias, SPECIAL, 45 * Milli)]
          [] OTHER -> [ok |-> TRUE, bias |-> bias]

\* Either [ok |-> TRUE, bias |-> the table] or, for the raised ValueError,
\* [ok |-> FALSE, bias |-> << >>].
bias_from_instruction(name) ==
    LET n == lower(name)
        bias == OrderBias(<< >>)
    IN  CASE n = S_aggressive ->
                [ok |-> TRUE,
                 bias |-> set_bias(set_bias(set_bias(bias,
                            NORMAL_SHOT, 25 * Milli),
                            STRONG_ATTACK, 35 * Milli),
                            APPROACH, 15 * Milli)]
          [] n = S_defensive ->
                [ok |-> TRUE,
                 bias |-> set_bias(set_bias(set_bias(bias,
                            EVADE, 30 * Milli),
                            KEEP_DISTANCE, 25 * Milli),
                            STEP, 20 * Milli)]
          [] n = S_focus ->
                [ok |-> TRUE,
                 bias |-> set_bias(set_bias(bias,
                            NORMAL_SHOT, 10 * Milli),
                            STRONG_ATTACK, 10 * Milli)]
          [] n = S_special ->
                [ok |-> TRUE, bias |-> set_bias(bias, SPECIAL, 45 * Milli)]
          [] n = S_balanced -> [ok |-> TRUE, bias |-> bias]
          [] OTHER -> [ok |-> FALSE, bias |-> << >>]

\* -------------------------------------------------------------------- Game
WIDTH == 640
HEIGHT == 480

\* Game.set_instruction without handing the table to the controller
\* (game.py:77 left out).
set_instruction_unapplied(ob, ist, ctrl, name) ==
    LET looked == bias_from_instruction(name)
    IN  IF ~looked.ok
        THEN [order_bias |-> ob, input_state |-> ist, ai |-> ctrl, raised |-> TRUE]
        ELSE [order_bias |-> looked.bias,
              input_state |-> [ist EXCEPT !.instruction = name],
              ai |-> ctrl,
              raised |-> FALSE]

\* Game.set_instruction recording the name before the lookup.
set_instruction_eager(ob, ist, ctrl, name) ==
    LET looked == bias_from_instruction(name)
    IN  IF ~looked.ok
        THEN [order_bias |-> ob, input_state |-> [ist EXCEPT !.instruction = name],
              ai |-> ctrl, raised |-> TRUE]
        ELSE [order_bias |-> looked.bias,
              input_state |-> [ist EXCEPT !.instruction = name],
              ai |-> set_order_bias(ctrl, looked.bias),
              raised |-> FALSE]

\* Game.set_instruction: the three fields it assigns, and whether the call
\* raised.  The lookup raises before anything is assigned.
set_instruction(ob, ist, ctrl, name) ==
    LET looked == bias_from_instruction(name)
    IN  IF ~looked.ok
        THEN [order_bias |-> ob, input_state |-> ist, ai |-> ctrl, raised |-> TRUE]
        ELSE [order_bias |-> looked.bias,
              input_state |-> [ist EXCEPT !.instruction = name],
              ai |-> set_order_bias(ctrl, looked.bias),
              raised |-> FALSE]

InputState == [instruction |-> S_balanced, personality |-> AGGRESSIVE]

\* ----------------------------------------------------------------- history
\* The calls whose spacing is recorded: the three player actions with a
\* cooldown (when they take effect) and think.
Timed == {"shoot", "strong_attack", "step", "think"}

\* elapsed[m] is the dt accumulated since the last m that took effect, -1
\* before the first; gap[m] is the dt that had accumulated between the last
\* two, -1 before the second.
NoHistory == [elapsed |-> [m \in Timed |-> -1], gap |-> [m \in Timed |-> -1]]

\* dt has passed for the calls of the set ms.
Tick(h, ms, dt) ==
    [h EXCEPT !.elapsed = [m \in Timed |->
        IF m \in ms /\ h.elapsed[m] >= 0 THEN Min(SinceCap, h.elapsed[m] + dt)
        ELSE h.elapsed[m]]]

\* The call m was made; it took effect when done is true.
Note(h, m, done) ==
    IF done
    THEN [h EXCEPT !.gap[m] = h.elapsed[m], !.elapsed[m] = 0]
    ELSE h

\* No call made yet.
NoCall == [op |-> "none", arg |-> << >>, out |-> << >>, raised |-> FALSE]

Call(op, arg, out, raised) == [op |-> op, arg |-> arg, out |-> out, raised |-> raised]

\* The AIController of Game.__init__: AIController() and then
\* set_order_bias(bias_from_instruction("balanced")).
GameController ==
    set_order_bias(AIController_init(AGGRESSIVE, OrderBias(<< >>), 350),
                   bias_from_instruction(S_balanced).bias)

\* Game.__init__, with the given controller as Game.ai.
GameInit(ctrl) ==
    /\ player = Player_init(Vec((WIDTH * Milli) \div 2, (HEIGHT - 80) * Milli))
    /\ enemy = Enemy_init(Vec((WIDTH * Milli) \div 2, 120 * Milli), 1200 * Milli)
    /\ player_bullets = << >>
    /\ enemy_bullets = << >>
    /\ input_state = InputState
    /\ order_bias = bias_from_instruction(S_balanced).bias
    /\ ai = ctrl
    /\ ai_timer = 0
    /\ last = NoCall
    /\ ncalls = 0
    /\ hist = NoHistory
    /\ base_weights = BASE_WEIGHTS

Init == GameInit(GameController)

gameVars == <<enemy, player_bullets, enemy_bullets, ai, order_bias,
              input_state, ai_timer, base_weights>>

\* ------------------------------------------------------ Game, frame by frame
\* Game.calculate_threat_level, in thousandths
calculate_threat_level(p, hostile) ==
    LET near == {i \in 1..Len(hostile) :
                    Length(VecSub(hostile[i].position, p.position)) <= 64 * Milli}
    IN  Min(Milli, Cardinality(near) * 100)

RECURSIVE ThreatSum(_, _, _)
\* The loop of aggregate_threat_vector over the first n hostile projectiles.
ThreatSum(p, hostile, n) ==
    IF n = 0 THEN Vec(0, 0)
    ELSE LET vec == ThreatSum(p, hostile, n - 1)
             offset == VecSub(hostile[n].position, p.position)
             dist == Length(offset)
         IN  IF dist < 160 * Milli /\ dist > 0
             THEN VecSub(vec, Normalize(offset))
             ELSE vec

aggregate_threat_vector(p, hostile) == ThreatSum(p, hostile, Len(hostile))

\* Game.build_context
build_context(p, e, hostile) ==
    [threat_level |-> calculate_threat_level(p, hostile),
     target_score |-> Milli,
     distance |-> Length(VecSub(e.position, p.position)),
     energy |-> p.stats.energy,
     heat |-> p.stats.heat,
     special |-> p.stats.special,
     hp_ratio |-> (p.stats.hp * Milli) \div p.stats.max_hp,
     sync |-> 350,
     cooldown_ready |-> can_step(p)]

\* Game.execute_action: the player after the action and the projectiles to
\* add to player_bullets.
execute_action(p, e, hostile, action) ==
    CASE action = NORMAL_SHOT -> shoot(p)
      [] action = STRONG_ATTACK /\ p.stats.energy >= 35 * Milli -> strong_attack(p)
      [] action = APPROACH ->
            LET direction == VecSub(e.position, p.position)
            IN  [p |-> IF Length(direction) > Milli
                       THEN [p EXCEPT !.velocity = VecTimes(Normalize(direction), p.speed)]
                       ELSE p,
                 out |-> << >>]
      [] action = KEEP_DISTANCE ->
            LET away == VecSub(p.position, e.position)
                direction == IF Length(away) = 0 THEN Vec(Milli, 0) ELSE away
                move == Normalize(direction)
                current == Length(VecSub(e.position, p.position))
            IN  [p |-> IF current < 200 * Milli
                       THEN [p EXCEPT !.velocity = VecTimes(move, p.speed)]
                       ELSE [p EXCEPT !.velocity =
                                VecTimes(Rotate90(move), (p.speed * 3) \div 10)],
                 out |-> << >>]
      [] action = EVADE ->
            LET threat_vec == aggregate_threat_vector(p, hostile)
            IN  [p |-> IF Length(threat_vec) > 0
                       THEN [p EXCEPT !.velocity = VecTimes(Normalize(threat_vec), p.speed)]
                       ELSE [p EXCEPT !.velocity = Vec(0, p.speed * Milli)],
                 out |-> << >>]
      [] action = STEP ->
            LET threat_vec == aggregate_threat_vector(p, hostile)
                direction == IF Length(threat_vec) > 0 THEN Normalize(threat_vec)
                             ELSE Vec(0, -Milli)
            IN  [p |-> step(p, direction), out |-> << >>]
      [] action = SPECIAL -> use_special(p)
      [] OTHER -> [p |-> p, out |-> << >>]

\* The two filters of update_bullets (game.py:177-178).
InFriendlyBounds(b) ==
    /\ -20 * Milli <= b.position.x /\ b.position.x <= (WIDTH + 20) * Milli
    /\ b.position.y > -40 * Milli

InHostileBounds(b) ==
    /\ -40 * Milli <= b.position.x /\ b.position.x <= (WIDTH + 40) * Milli
    /\ b.position.y < (HEIGHT + 60) * Milli

\* Game.update_bullets on player_bullets (game.py:173-174, 177).
update_player_bullets(bullets, dt) ==
    Only({SelectSeq([i \in 1..Len(bs) |-> Bullet_update(bs[i], dt)], InFriendlyBounds)
          : bs \in {bullets}})

\* Game.update_bullets on enemy_bullets (game.py:175-176, 178).
update_enemy_bullets(bullets, dt) ==
    Only({SelectSeq([i \in 1..Len(bs) |-> Bullet_update(bs[i], dt)], InHostileBounds)
          : bs \in {bullets}})

\* list.remove: the sequence without its first element equal to b.
Remove(bullets, b) ==
    LET first == CHOOSE i \in 1..Len(bullets) :
                    /\ bullets[i] = b
                    /\ \A j \in 1..(i - 1) : bullets[j] # b
    IN  [i \in 1..(Len(bullets) - 1) |->
            IF i < first THEN bullets[i] ELSE bullets[i + 1]]

\* The pass of the first loop with the projectile left in the collection.
CollideEnemyStep_keep(acc, b) ==
    IF collidepoint(Rect(acc.e.position, acc.e.radius), b.position)
    THEN [e |-> Enemy_take_damage(acc.e, b.damage),
          bullets |-> acc.bullets,
          hits |-> acc.hits + 1]
    ELSE acc

\* One pass of the first loop of handle_collisions (game.py:184-186) for the
\* projectile b of the copy: acc holds the enemy, the collection and the
\* number of hits so far.
CollideEnemyStep(acc, b) ==
    IF collidepoint(Rect(acc.e.position, acc.e.radius), b.position)
    THEN [e |-> Enemy_take_damage(acc.e, b.damage),
          bullets |-> Remove(acc.bullets, b),
          hits |-> acc.hits + 1]
    ELSE acc

RECURSIVE CollideEnemy(_, _, _)
\* The first loop of handle_collisions over the first n projectiles of the
\* copy list(self.player_bullets), from the enemy e.
CollideEnemy(copy, n, e) ==
    IF n = 0 THEN [e |-> e, bullets |-> copy, hits |-> 0]
    ELSE Only({CollideEnemyStep(acc, copy[n]) : acc \in {CollideEnemy(copy, n - 1, e)}})

\* One pass of the second loop of handle_collisions (game.py:189-191).
CollidePlayerStep(acc, b) ==
    IF collidepoint(Rect(acc.p.position, acc.p.radius), b.position)
    THEN [p |-> Player_take_damage(acc.p, b.damage),
          bullets |-> Remove(acc.bullets, b),
          hits |-> acc.hits + 1]
    ELSE acc

RECURSIVE CollidePlayer(_, _, _)
\* The second loop of handle_collisions over the first n projectiles of the
\* copy list(self.enemy_bullets), from the player p.
CollidePlayer(copy, n, p) ==
    IF n = 0 THEN [p |-> p, bullets |-> copy, hits |-> 0]
    ELSE Only({CollidePlayerStep(acc, copy[n]) : acc \in {CollidePlayer(copy, n - 1, p)}})

\* Game.handle_collisions: the enemy, the player, the two collections and
\* the number of hits on each side.
handle_collisions(p, e, friendly, hostile) ==
    Only({[player |-> onp.p, enemy |-> one.e,
           player_bullets |-> one.bullets, enemy_bullets |-> onp.bullets,
           enemy_hits |-> one.hits, player_hits |-> onp.hits]
          : one \in {CollideEnemy(friendly, Len(friendly), e)},
            onp \in {CollidePlayer(hostile, Len(hostile), p)}})

\* Game.update lines 81-84: the player and the enemy updated, and the hostile
\* collection with the enemy's new projectiles.
UpdateActors(dt) ==
    Only({Only({[p |-> p1, e |-> eu.e, hostile |-> enemy_bullets \o eu.out]
                : eu \in {Enemy_update(enemy, dt, p1.position)}})
          : p1 \in {Player_update(player, dt)}})

\* The timed player action that took effect when action was executed on the
\* player before, giving the player after and the projectiles out: a shot or
\* a strong attack that emitted, a step that displaced; "none" otherwise.
Took(action, before, after, out) ==
    CASE action = NORMAL_SHOT /\ out # << >> -> "shoot"
      [] action = STRONG_ATTACK /\ out # << >> -> "strong_attack"
      [] action = STEP /\ after.position # before.position -> "step"
      [] OTHER -> "none"

\* Decide without the reset of the decision timer (game.py:89).
Decide_no_reset(dt, a, draw, jitter) ==
    IF ai_timer - dt * Milli <= 0
    THEN Only({Only({[ai_timer |-> ai_timer - dt * Milli,
                      decided |-> TRUE, action |-> choice.action,
                      p |-> acted.p, out |-> acted.out,
                      took |-> Took(choice.action, a.p, acted.p, acted.out),
                      table |-> choice.table]
                     : acted \in {execute_action(a.p, a.e, a.hostile, choice.action)}})
               : choice \in {think(ai, build_context(a.p, a.e, a.hostile), draw, jitter)}})
    ELSE [ai_timer |-> ai_timer - dt * Milli,
          decided |-> FALSE, action |-> "none", p |-> a.p, out |-> << >>,
          took |-> "none", table |-> base_weights]

\* Game.update lines 80 and 86-90 on the actors a: the decision timer, and
\* when it has elapsed the choice of think (with draw and jitter the two
\* values it draws) and the action executed.
Decide(dt, a, draw, jitter) ==
    IF ai_timer - dt * Milli <= 0
    THEN Only({Only({[ai_timer |-> Max(50 * Milli, choice.delay),
                      decided |-> TRUE, action |-> choice.action,
                      p |-> acted.p, out |-> acted.out,
                      took |-> Took(choice.action, a.p, acted.p, acted.out),
                      table |-> choice.table]
                     : acted \in {execute_action(a.p, a.e, a.hostile, choice.action)}})
               : choice \in {think(ai, build_context(a.p, a.e, a.hostile), draw, jitter)}})
    ELSE [ai_timer |-> ai_timer - dt * Milli,
          decided |-> FALSE, action |-> "none", p |-> a.p, out |-> << >>,
          took |-> "none", table |-> base_weights]

\* The damping moving the player as well.
Damp_moving(p) ==
    [p EXCEPT !.velocity = VecScaleMilli(p.velocity, 850),
              !.position = VecAdd(p.position, VecScaleMilli(p.velocity, 16))]

\* self.player.velocity *= 0.85 (game.py:94)
Damp(p) == [p EXCEPT !.velocity = VecScaleMilli(p.velocity, 850)]

\* Game.update lines 92-94 after the decision d: projectiles advanced and
\* culled, collisions resolved, the player's velocity damped.
Resolve(dt, a, d) ==
    Only({[ai_timer |-> d.ai_timer,
           player |-> Damp(c.player),
           enemy |-> c.enemy,
           player_bullets |-> c.player_bullets,
           enemy_bullets |-> c.enemy_bullets,
           decided |-> d.decided, action |-> d.action, took |-> d.took,
           table |-> d.table,
           enemy_hits |-> c.enemy_hits, player_hits |-> c.player_hits]
          : c \in {Only({handle_collisions(d.p, a.e, friendly, hostile)
                         : friendly \in {update_player_bullets(player_bullets \o d.out, dt)},
                           hostile \in {update_enemy_bullets(a.hostile, dt)}})}})

\* Game.update(dt): the fields of the game after the frame, whether a
\* decision was made and which, and the number of hits on the enemy and on
\* the player.
Game_update(dt, draw, jitter) ==
    Only({Only({Resolve(dt, a, d) : d \in {Decide(dt, a, draw, jitter)}})
          : a \in {UpdateActors(dt)}})

\* Game.update(dt) from the actors a already updated (lines 86-94).
Game_update_from(dt, a, draw, jitter) ==
    Only({Resolve(dt, a, d) : d \in {Decide(dt, a, draw, jitter)}})

\* ===================================================== the Player's methods
\* Calls of the Player's methods in any order, as a caller of entities.py
\* may make them.

\* dt of Player.update, in milliseconds
Dts == {0, 16, 200, 1000, 20000}

\* directions of Player.step
Directions == {Vec(0, -Milli), Vec(Milli, 0), Vec(-Milli, 0), Vec(0, Milli)}

\* dmg of Player.take_damage: none, a hostile projectile's, a lethal one
Damages == {0, 12 * Milli, 100 * Milli}

CallUpdate ==
    \E dt \in Dts :
        /\ ncalls < MaxCalls
        /\ player' = Player_update(player, dt)
        /\ last' = Call("update", dt, << >>, FALSE)
        /\ ncalls' = ncalls + 1
        /\ hist' = Tick(hist, {"shoot", "strong_attack", "step"}, dt)
        /\ UNCHANGED gameVars

CallTakeDamage ==
    \E dmg \in Damages :
        /\ ncalls < MaxCalls
        /\ player' = Player_take_damage(player, dmg)
        /\ last' = Call("take_damage", dmg, << >>, FALSE)
        /\ ncalls' = ncalls + 1
        /\ UNCHANGED <<gameVars, hist>>

CallShoot ==
    /\ ncalls < MaxCalls
    /\ player' = shoot(player).p
    /\ last' = Call("shoot", << >>, shoot(player).out, FALSE)
    /\ ncalls' = ncalls + 1
    /\ hist' = Note(hist, "shoot", shoot(player).out # << >>)
    /\ UNCHANGED gameVars

CallStrongAttack ==
    /\ ncalls < MaxCalls
    /\ player' = strong_attack(player).p
    /\ last' = Call("strong_attack", << >>, strong_attack(player).out, FALSE)
    /\ ncalls' = ncalls + 1
    /\ hist' = Note(hist, "strong_attack", strong_attack(player).out # << >>)
    /\ UNCHANGED gameVars

CallStep ==
    \E direction \in Directions :
        /\ ncalls < MaxCalls
        /\ player' = step(player, direction)
        /\ last' = Call("step", direction, << >>, FALSE)
        /\ ncalls' = ncalls + 1
        /\ hist' = Note(hist, "step",
                        step(player, direction).position # player.position)
        /\ UNCHANGED gameVars

CallUseSpecial ==
    /\ ncalls < MaxCalls
    /\ player' = use_special(player).p
    /\ last' = Call("use_special", << >>, use_special(player).out, FALSE)
    /\ ncalls' = ncalls + 1
    /\ UNCHANGED <<gameVars, hist>>

NextPlayer ==
    \/ CallUpdate
    \/ CallTakeDamage
    \/ CallShoot
    \/ CallStrongAttack
    \/ CallStep
    \/ CallUseSpecial

SpecPlayer == Init /\ [][NextPlayer]_vars

\* ============================================ the Player's actions, drained
\* The calls of the Player's methods and of Game.execute_action on a player
\* that has played for a while: a fresh one after some rounds of one second
\* of update followed by strong_attack, which hold the energy low while the
\* special charge builds up.

RECURSIVE Rounds(_, _)
\* The player and the history after n rounds on the fresh player of the game.
Rounds(start, n) ==
    IF n = 0 THEN [p |-> start, h |-> NoHistory]
    ELSE Only({Only({[p |-> a.p,
                      h |-> Note(Tick(s.h, {"shoot", "strong_attack", "step"}, 1000),
                                 "strong_attack", a.out # << >>)]
                     : a \in {strong_attack(Player_update(s.p, 1000))}})
               : s \in {Rounds(start, n - 1)}})

\* Rounds played before the calls: none; 6, after which the energy is 25 and
\* the strong timer has run out; 20, after which the special charge is full
\* and the energy is 25.
StartRounds == {0, 6, 20}

InitActions ==
    \E n \in StartRounds :
        \E s \in {Rounds(Player_init(Vec((WIDTH * Milli) \div 2,
                                          (HEIGHT - 80) * Milli)), n)} :
            /\ player = s.p
            /\ hist = s.h
            /\ base_weights = BASE_WEIGHTS
            /\ enemy = Enemy_init(Vec((WIDTH * Milli) \div 2, 120 * Milli),
                                  1200 * Milli)
            /\ player_bullets = << >>
            /\ enemy_bullets = << >>
            /\ input_state = InputState
            /\ order_bias = bias_from_instruction(S_balanced).bias
            /\ ai = GameController
            /\ ai_timer = 0
            /\ last = NoCall
            /\ ncalls = 0

\* Game.execute_action(action): the projectiles returned are added to
\* player_bullets (game.py:151-152).
CallExecuteAction ==
    \E action \in Action :
        /\ ncalls < MaxCalls
        /\ \E r \in {execute_action(player, enemy, enemy_bullets, action)} :
              /\ player' = r.p
              /\ player_bullets' = player_bullets \o r.out
              /\ last' = Call("execute_action", action, r.out, FALSE)
              /\ hist' = Only({Note(hist, took, took # "none")
                               : took \in {Took(action, player, r.p, r.out)}})
        /\ ncalls' = ncalls + 1
        /\ UNCHANGED <<enemy, enemy_bullets, ai, order_bias, input_state, ai_timer,
                       base_weights>>

NextActions ==
    \/ ncalls < MaxActionCalls /\ CallUpdate
    \/ ncalls < MaxActionCalls /\ CallTakeDamage
    \/ ncalls < MaxActionCalls /\ CallShoot
    \/ ncalls < MaxActionCalls /\ CallStrongAttack
    \/ ncalls < MaxActionCalls /\ CallStep
    \/ ncalls < MaxActionCalls /\ CallUseSpecial
    \/ ncalls < MaxActionCalls /\ CallExecuteAction

SpecActions == InitActions /\ [][NextActions]_vars

\* ==================================================== collision resolution
\* Game.handle_collisions on collections drawn from a few projectiles, with
\* repetitions: projectiles inside the enemy's or the player's rectangle,
\* on its right edge, and away from it.

\* Projectiles in each collection.
MaxBullets == 3

\* friendly projectiles around the enemy at (320, 120), whose rectangle is
\* [300, 340) x [100, 140)
FriendlyShots ==
    {Bullet(Vec(320 * Milli, 120 * Milli), Vec(0, -420 * Milli), 6 * Milli, 4, TRUE),
     Bullet(Vec(310 * Milli, 139 * Milli), Vec(0, -520 * Milli), 22 * Milli, 6, TRUE),
     Bullet(Vec(340 * Milli, 120 * Milli), Vec(0, -420 * Milli), 6 * Milli, 4, TRUE),
     Bullet(Vec(320 * Milli, 300 * Milli), Vec(0, -420 * Milli), 6 * Milli, 4, TRUE)}

\* hostile projectiles around the player at (320, 400), whose rectangle is
\* [302, 338) x [382, 418)
HostileShots ==
    {Bullet(Vec(320 * Milli, 400 * Milli), Vec(9 * Milli, 210 * Milli), 12 * Milli, 6, FALSE),
     Bullet(Vec(338 * Milli, 400 * Milli), Vec(36 * Milli, 210 * Milli), 12 * Milli, 6, FALSE),
     Bullet(Vec(302 * Milli, 417 * Milli), Vec(-36 * Milli, 210 * Milli), 12 * Milli, 6, FALSE)}

\* The sequences of at most MaxBullets elements of S.
Lists(S) == UNION {[1..n -> S] : n \in 0..MaxBullets}

InitCollision ==
    /\ player = Player_init(Vec((WIDTH * Milli) \div 2, (HEIGHT - 80) * Milli))
    /\ enemy = Enemy_init(Vec((WIDTH * Milli) \div 2, 120 * Milli), 1200 * Milli)
    /\ player_bullets \in Lists(FriendlyShots)
    /\ enemy_bullets \in Lists(HostileShots)
    /\ input_state = InputState
    /\ order_bias = bias_from_instruction(S_balanced).bias
    /\ ai = GameController
    /\ ai_timer = 0
    /\ last = NoCall
    /\ ncalls = 0
    /\ hist = NoHistory
    /\ base_weights = BASE_WEIGHTS

CallHandleCollisions ==
    /\ ncalls = 0
    /\ \E c \in {handle_collisions(player, enemy, player_bullets, enemy_bullets)} :
          /\ player' = c.player
          /\ enemy' = c.enemy
          /\ player_bullets' = c.player_bullets
          /\ enemy_bullets' = c.enemy_bullets
          /\ last' = Call("handle_collisions",
                          [friendly |-> player_bullets, hostile |-> enemy_bullets],
                          [enemy_hits |-> c.enemy_hits, player_hits |-> c.player_hits],
                          FALSE)
    /\ ncalls' = ncalls + 1
    /\ UNCHANGED <<ai, order_bias, input_state, ai_timer, hist, base_weights>>

NextCollision == CallHandleCollisions

SpecCollision == InitCollision /\ [][NextCollision]_vars

\* ====================================================== the Enemy's damage
\* Hits on the Enemy of Game.__init__ (hp 1200) by friendly projectiles.

\* damage of the projectiles of shoot, use_special and strong_attack
FriendlyDamages == {6 * Milli, 18 * Milli, 22 * Milli}

\* last.out counts the hits so far by their damage.
HitsSoFar == IF last.op = "enemy_take_damage" THEN last.out
             ELSE [d \in FriendlyDamages |-> 0]

CallEnemyTakeDamage ==
    \E dmg \in FriendlyDamages :
        /\ ncalls < MaxHits
        /\ enemy' = Enemy_take_damage(enemy, dmg)
        /\ last' = Call("enemy_take_damage", dmg,
                         [HitsSoFar EXCEPT ![dmg] = @ + 1], FALSE)
        /\ ncalls' = ncalls + 1
        /\ UNCHANGED <<player, player_bullets, enemy_bullets, ai, order_bias,
                       input_state, ai_timer, hist, base_weights>>

NextEnemy == CallEnemyTakeDamage

SpecEnemy == Init /\ [][NextEnemy]_vars

\* ====================================================== the decision engine
\* AIController.think on a controller built with any personality, order bias
\* and base delay.  The AIChoice returned is consumed by the caller and
\* discarded before the next call (game.py:88-90).

\* base_delay of the AIController, in milliseconds
BaseDelays == {0, 350}

\* order biases other than the instruction tables: every action vetoed, and
\* the normal shot alone vetoed
VetoAll == OrderBias([a \in Action |-> -1000 * Milli])
VetoShot == OrderBias([a \in {NORMAL_SHOT} |-> -100 * Milli])

Vocabulary == {S_balanced, S_aggressive, S_defensive, S_focus, S_special}

Biases == {bias_from_instruction(name).bias : name \in Vocabulary}
              \cup {VetoAll, VetoShot}

Contexts ==
    [threat_level : {0, 900}, target_score : {Milli}, distance : {280 * Milli},
     energy : {10 * Milli, 100 * Milli}, heat : {0, 80 * Milli},
     special : {0, 100 * Milli}, hp_ratio : {200, Milli},
     sync : {350, Milli}, cooldown_ready : BOOLEAN]

\* values of uniform(-0.08, 0.08), in microseconds
Jitters == {-80 * Milli, 0, 80 * Milli}

InitDecision ==
    \E personality \in Personality, bias \in Biases, base_delay \in BaseDelays :
        GameInit(AIController_init(personality, bias, base_delay))

worldVars == <<player, enemy, player_bullets, enemy_bullets, ai_timer, ncalls,
               hist>>

CallThink ==
    \E ctx \in Contexts, draw \in Draws, jitter \in Jitters :
        /\ last.op # "think"
        /\ \E r \in {think(ai, ctx, draw, jitter)} :
              /\ last' = Call("think", [ctx |-> ctx, jitter |-> jitter], r, FALSE)
              /\ base_weights' = r.table
        /\ UNCHANGED <<ai, order_bias, input_state>>
        /\ UNCHANGED worldVars

ConsumeChoice ==
    /\ last.op = "think"
    /\ last' = NoCall
    /\ UNCHANGED <<ai, order_bias, input_state, base_weights>>
    /\ UNCHANGED worldVars

NextDecision ==
    \/ CallThink
    \/ ConsumeChoice

SpecDecision == InitDecision /\ [][NextDecision]_vars

\* ============================================================ instructions
\* Game.set_instruction and the two setters of the AIController, called in
\* any order.

S_AGGRESSIVE_upper == <<65, 71, 71, 82, 69, 83, 83, 73, 86, 69>>
S_Focus_capital == <<70, 111, 99, 117, 115>>
S_retreat == <<114, 101, 116, 114, 101, 97, 116>>
S_empty == << >>

\* the names handed to set_instruction
Names == Vocabulary \cup {S_AGGRESSIVE_upper, S_Focus_capital, S_retreat, S_empty}

CallSetInstruction ==
    \E name \in Names :
        LET r == set_instruction(order_bias, input_state, ai, name)
        IN  /\ order_bias' = r.order_bias
            /\ input_state' = r.input_state
            /\ ai' = r.ai
            /\ last' = Call("set_instruction", name, << >>, r.raised)
            /\ UNCHANGED <<worldVars, base_weights>>

CallSetPersonality ==
    \E personality \in Personality :
        /\ ai' = set_personality(ai, personality)
        /\ last' = Call("set_personality", personality, << >>, FALSE)
        /\ UNCHANGED <<order_bias, input_state, base_weights>>
        /\ UNCHANGED worldVars

CallSetOrderBias ==
    \E bias \in {VetoAll, VetoShot} :
        /\ ai' = set_order_bias(ai, bias)
        /\ last' = Call("set_order_bias", bias, << >>, FALSE)
        /\ UNCHANGED <<order_bias, input_state, base_weights>>
        /\ UNCHANGED worldVars

NextInstruction ==
    \/ CallSetInstruction
    \/ CallSetPersonality
    \/ CallSetOrderBias

SpecInstruction == Init /\ [][NextInstruction]_vars

\* ================================================================ the game
\* Frames of Game.run: each calls Game.update(dt) with the clock's dt.

\* Frames run.
MaxFrames == 4

\* dt of a frame, in milliseconds: a frame at 60 FPS and a slow frame
FrameDts == {16, 600}

\* values of uniform(-0.08, 0.08) drawn in a frame, in microseconds
FrameJitters == {-80 * Milli, 80 * Milli}

\* Whether the decision timer elapses in a frame of dt.
Decides(dt) == ai_timer - dt * Milli <= 0

FrameResult(dt, r) ==
    /\ player' = r.player
    /\ enemy' = r.enemy
    /\ player_bullets' = r.player_bullets
    /\ enemy_bullets' = r.enemy_bullets
    /\ ai_timer' = r.ai_timer
    /\ last' = Call("frame", dt,
                    [decided |-> r.decided, action |-> r.action,
                     enemy_hits |-> r.enemy_hits, player_hits |-> r.player_hits],
                    FALSE)
    /\ ncalls' = ncalls + 1
    /\ hist' = Note(Note(Tick(hist, Timed, dt), "think", r.decided),
                    r.took, r.took # "none")
    /\ base_weights' = r.table
    /\ UNCHANGED <<ai, order_bias, input_state>>

\* The actors are updated once per dt; the frame is then completed for each
\* pair of values think may draw.
Frame ==
    /\ ncalls < MaxFrames
    /\ \E dt \in FrameDts :
          \E a \in {UpdateActors(dt)} :
              IF Decides(dt)
              THEN \E draw \in Draws, jitter \in FrameJitters :
                      \E r \in {Game_update_from(dt, a, draw, jitter)} :
                          FrameResult(dt, r)
              ELSE \E r \in {Game_update_from(dt, a, 0, 0)} : FrameResult(dt, r)

NextGame == Frame

SpecGame == Init /\ [][NextGame]_vars

\* ================================================= projectiles in flight
\* Game.update_bullets called frame after frame on the projectiles the
\* actors emit: a shot, a strong attack, a special volley, the enemy's
\* volley.  Frames keep running, so the call is made again and again.

\* A player whose special charge is full.
ChargedPlayer == Player_update(Player_init(Vec((WIDTH * Milli) \div 2,
                                               (HEIGHT - 80) * Milli)), 20000)

\* What execute_action may have added to player_bullets.
FriendlyVolleys ==
    {<< >>, shoot(ChargedPlayer).out, strong_attack(ChargedPlayer).out,
     use_special(ChargedPlayer).out,
     shoot(ChargedPlayer).out \o use_special(ChargedPlayer).out}

\* What Enemy.update may have added to enemy_bullets.
HostileVolleys ==
    {<< >>,
     Enemy_update(Enemy_init(Vec((WIDTH * Milli) \div 2, 120 * Milli), 1200 * Milli),
                  16, ChargedPlayer.position).out}

InitFlight ==
    /\ player = ChargedPlayer
    /\ enemy = Enemy_init(Vec((WIDTH * Milli) \div 2, 120 * Milli), 1200 * Milli)
    /\ player_bullets \in FriendlyVolleys
    /\ enemy_bullets \in HostileVolleys
    /\ input_state = InputState
    /\ order_bias = bias_from_instruction(S_balanced).bias
    /\ ai = GameController
    /\ ai_timer = 0
    /\ last = NoCall
    /\ ncalls = 0
    /\ hist = NoHistory
    /\ base_weights = BASE_WEIGHTS

\* Game.update_bullets(dt); last.out counts the projectiles culled.
CallUpdateBullets ==
    \E dt \in FrameDts :
        \E friendly \in {update_player_bullets(player_bullets, dt)},
           hostile \in {update_enemy_bullets(enemy_bullets, dt)} :
            /\ player_bullets' = friendly
            /\ enemy_bullets' = hostile
            /\ last' = Call("update_bullets", dt,
                            [friendly_culled |-> Len(player_bullets) - Len(friendly),
                             hostile_culled |-> Len(enemy_bullets) - Len(hostile)],
                            FALSE)
            /\ UNCHANGED <<player, enemy, ai, order_bias, input_state, ai_timer,
                           ncalls, hist, base_weights>>

NextFlight == CallUpdateBullets

\* Game.run calls update, and so update_bullets, in every iteration of its
\* loop (game.py:43-47).
SpecFlight == InitFlight /\ [][NextFlight]_vars /\ WF_vars(CallUpdateBullets)

\* ===================================================== the frame, in order
\* One iteration of Game.run after its events: Game.update(dt) statement by
\* statement, then Game.draw().  last.op is the statement just executed and
\* last.arg the frame's dt.

\* game.py:80-84: the decision timer decremented, the player and the enemy
\* updated, the enemy's new projectiles added.
FrameActors ==
    /\ last.op \in {"none", "frame.draw"}
    /\ ncalls < MaxFrames
    /\ \E dt \in FrameDts :
          \E a \in {UpdateActors(dt)} :
              /\ ai_timer' = ai_timer - dt * Milli
              /\ player' = a.p
              /\ enemy' = a.e
              /\ enemy_bullets' = a.hostile
              /\ hist' = Tick(hist, Timed, dt)
              /\ last' = Call("frame.actors", dt, << >>, FALSE)
    /\ UNCHANGED <<player_bullets, ai, order_bias, input_state, ncalls, base_weights>>

\* game.py:86-90: the decision, when the timer has run out.
FrameDecide ==
    /\ last.op = "frame.actors"
    /\ \E draw \in IF ai_timer <= 0 THEN Draws ELSE {0},
          jitter \in IF ai_timer <= 0 THEN FrameJitters ELSE {0} :
          \E d \in {Decide(0, [p |-> player, e |-> enemy, hostile |-> enemy_bullets],
                            draw, jitter)} :
              /\ ai_timer' = d.ai_timer
              /\ player' = d.p
              /\ player_bullets' = player_bullets \o d.out
              /\ base_weights' = d.table
              /\ hist' = Note(Note(hist, "think", d.decided), d.took, d.took # "none")
              /\ last' = Call("frame.decide", last.arg,
                              [decided |-> d.decided, action |-> d.action], FALSE)
    /\ UNCHANGED <<enemy, enemy_bullets, ai, order_bias, input_state, ncalls>>

\* game.py:92
FrameBullets ==
    /\ last.op = "frame.decide"
    /\ player_bullets' = update_player_bullets(player_bullets, last.arg)
    /\ enemy_bullets' = update_enemy_bullets(enemy_bullets, last.arg)
    /\ last' = Call("frame.bullets", last.arg, << >>, FALSE)
    /\ UNCHANGED <<player, enemy, ai, order_bias, input_state, ai_timer, ncalls,
                   hist, base_weights>>

\* game.py:93
FrameCollisions ==
    /\ last.op = "frame.bullets"
    /\ \E c \in {handle_collisions(player, enemy, player_bullets, enemy_bullets)} :
          /\ player' = c.player
          /\ enemy' = c.enemy
          /\ player_bullets' = c.player_bullets
          /\ enemy_bullets' = c.enemy_bullets
          /\ last' = Call("frame.collisions", last.arg,
                          [enemy_hits |-> c.enemy_hits, player_hits |-> c.player_hits],
                          FALSE)
    /\ UNCHANGED <<ai, order_bias, input_state, ai_timer, ncalls, hist, base_weights>>

\* game.py:94
FrameDamping ==
    /\ last.op = "frame.collisions"
    /\ player' = Damp(player)
    /\ last' = Call("frame.damping", last.arg, << >>, FALSE)
    /\ UNCHANGED <<enemy, player_bullets, enemy_bullets, ai, order_bias,
                   input_state, ai_timer, ncalls, hist, base_weights>>

\* game.py:47: Game.draw() reads the actors and the collections.
FrameDraw ==
    /\ last.op = "frame.damping"
    /\ last' = Call("frame.draw", last.arg, << >>, FALSE)
    /\ ncalls' = ncalls + 1
    /\ UNCHANGED <<player, enemy, player_bullets, enemy_bullets, ai, order_bias,
                   input_state, ai_timer, hist, base_weights>>

NextOrder ==
    \/ FrameActors
    \/ FrameDecide
    \/ FrameBullets
    \/ FrameCollisions
    \/ FrameDamping
    \/ FrameDraw

SpecOrder == Init /\ [][NextOrder]_vars

\* ================================================================= readers
\* The context builder and the decision engine called as Game.update calls
\* them (game.py:87-88), between calls of the setters, on a game with
\* hostile projectiles around the player.

InitReaders ==
    /\ player = Player_init(Vec((WIDTH * Milli) \div 2, (HEIGHT - 80) * Milli))
    /\ enemy = Enemy_init(Vec((WIDTH * Milli) \div 2, 120 * Milli), 1200 * Milli)
    /\ player_bullets = << >>
    /\ enemy_bullets \in Lists(HostileShots)
    /\ input_state = InputState
    /\ order_bias = bias_from_instruction(S_balanced).bias
    /\ ai = GameController
    /\ ai_timer = 0
    /\ last = NoCall
    /\ ncalls = 0
    /\ hist = NoHistory
    /\ base_weights = BASE_WEIGHTS

\* Game.build_context(): last.out is the AIContext returned.
CallBuildContext ==
    /\ last' = Call("build_context", << >>,
                    build_context(player, enemy, enemy_bullets), FALSE)
    /\ UNCHANGED <<ai, order_bias, input_state, base_weights>>
    /\ UNCHANGED worldVars

\* AIController.think(ctx) on the context just built.
CallThinkBuilt ==
    /\ last.op = "build_context"
    /\ \E draw \in Draws, jitter \in FrameJitters :
          \E r \in {think(ai, last.out, draw, jitter)} :
              /\ last' = Call("think", [ctx |-> last.out, jitter |-> jitter], r, FALSE)
              /\ base_weights' = r.table
    /\ UNCHANGED <<ai, order_bias, input_state>>
    /\ UNCHANGED worldVars

NextReaders ==
    \/ CallBuildContext
    \/ CallThinkBuilt
    \/ CallSetInstruction
    \/ CallSetPersonality
    \/ CallSetOrderBias

SpecReaders == InitReaders /\ [][NextReaders]_vars

\* ============================================================= the session
\* Game.run with its events: between two frames the operator may issue an
\* instruction (handle_events, game.py:57-66, or any other caller of
\* set_instruction) or change the personality (game.py:67-72).

\* Frames run in a session.
MaxSessionFrames == 1

SessionFrame ==
    /\ ncalls < MaxSessionFrames
    /\ Frame

NextSession ==
    \/ SessionFrame
    \/ CallSetInstruction
    \/ CallSetPersonality

SpecSession == Init /\ [][NextSession]_vars

\* ================================================================== claims

Pools == {"hp", "energy", "heat", "special"}
PoolMax(st, pool) ==
    CASE pool = "hp" -> st.max_hp
      [] pool = "energy" -> st.max_energy
      [] pool = "heat" -> st.max_heat
      [] pool = "special" -> st.max_special

\* C1: after any sequence of update(dt >= 0), shoot, strong_attack, step,
\* use_special and take_damage(dmg >= 0) on a fresh Player, each of hp,
\* energy, heat and special is within [0, its max].
C1_PoolsInRange ==
    \A pool \in Pools :
        player.stats[pool] >= 0 /\ player.stats[pool] <= PoolMax(player.stats, pool)

\* A lethal hit landed on a player that has fired (heat above 0).
C1_Witness ==
    /\ last.op = "take_damage"
    /\ player.stats.hp = 0
    /\ player.stats.heat > 0

\* The hits so far are n hits of damage 22 and no other.
Only22(n) ==
    /\ last.op = "enemy_take_damage"
    /\ last.out = [d \in FriendlyDamages |-> IF d = 22 * Milli THEN n ELSE 0]

\* C2 as stated: an Enemy of hp 1200 has hp 100 after 50 take_damage(22), and
\* hp 0 with alive() false after the 51st.
C2_Original ==
    /\ Only22(50) => enemy.hp = 100 * Milli
    /\ Only22(51) => (enemy.hp = 0 /\ ~alive(enemy))

\* C2 amended: hp is 100 after 50 take_damage(22); after the 51st it is 78
\* and alive() is true; hp is 0 and alive() false from the 55th on.
C2_Amended ==
    /\ Only22(50) => enemy.hp = 100 * Milli
    /\ Only22(51) => (enemy.hp = 78 * Milli /\ alive(enemy))
    /\ Only22(54) => (enemy.hp = 12 * Milli /\ alive(enemy))
    /\ Only22(55) => (enemy.hp = 0 /\ ~alive(enemy))

C2_Witness == Only22(51) /\ alive(enemy)

Timers == {"shot_timer", "strong_timer", "step_cooldown", "invincible"}

\* C3 as stated: each of the player's four timers is non-negative in every
\* reachable state.
C3_Original == \A t \in Timers : player[t] >= 0

\* C3 amended: a timer is decremented only while it is above 0, so a negative
\* timer value is either left as it was or was just produced by update(dt)
\* from a positive value and is above -dt; it is never decremented further.
C3_Amended ==
    [][\A t \in Timers :
          \/ player'[t] >= 0
          \/ player'[t] = player[t]
          \/ /\ player[t] > 0
             /\ last'.op = "update"
             /\ player'[t] = player[t] - last'.arg
             /\ player'[t] > -last'.arg]_vars

\* An update has taken the shot timer below 0.
C3_Witness == last.op = "update" /\ player.shot_timer < 0

\* C4: for every context, personality, order bias, base delay and jitter in
\* [-0.08, +0.08], the delay of the AIChoice returned by think is at least
\* 0.05 s.
C4_DelayFloor == last.op = "think" => last.out.delay >= 50 * Milli

\* think has returned a delay whose unfloored value is negative.
C4_Witness ==
    /\ last.op = "think"
    /\ last.arg.jitter = -80 * Milli
    /\ ai.base_delay = 0
    /\ last.out.delay = 50 * Milli

\* C5: whenever the weights after all adjustments and the clamp sum to 0,
\* the weighted selection returns KeepDistance, whatever is drawn.
C5_ZeroTotalFallback ==
    (last.op = "think" /\ Total(last.out.weights) = 0)
        => last.out.action = KEEP_DISTANCE

C5_Witness ==
    /\ last.op = "think"
    /\ Total(last.out.weights) = 0
    /\ last.out.action = KEEP_DISTANCE

\* C6 as stated: whenever the total weight is positive, an action whose weight
\* is 0 is never returned, for every value of the draw and every position of
\* the action in the enumeration order.
C6_ZeroWeightNeverReturned ==
    (last.op = "think" /\ Total(last.out.weights) > 0)
        => last.out.weights[last.out.action] > 0

\* C7: when cooldown_ready is false, the weight of Step is exactly 0 and
\* think does not return Step, for every personality, order bias and context.
C7_StepVetoed ==
    (last.op = "think" /\ ~last.arg.ctx.cooldown_ready)
        => (last.out.weights[STEP] = 0 /\ last.out.action # STEP)

\* think ran with the cooldown not ready where threat and the order bias
\* both raise Step.
C7_Witness ==
    /\ last.op = "think"
    /\ ~last.arg.ctx.cooldown_ready
    /\ last.arg.ctx.threat_level > 700
    /\ ai.order_bias[STEP] > 0

\* C8 as stated: every name that is not one of "balanced", "aggressive",
\* "defensive", "focus", "special" is rejected.
C8_Original ==
    (last.op = "set_instruction" /\ last.arg \notin Vocabulary) => last.raised

\* C8 amended: every name whose lower-case form is not one of the five
\* vocabulary names is rejected (the lookup lower-cases the name first).
C8_Amended ==
    (last.op = "set_instruction" /\ lower(last.arg) \notin Vocabulary)
        => last.raised

C8_Witness ==
    last.op = "set_instruction" /\ last.arg = S_retreat /\ last.raised

\* C9: a call of Game.set_instruction with a rejected name leaves the game's
\* order_bias, the recorded input_state.instruction and the controller's
\* order_bias unchanged.
C9_RejectedNotApplied ==
    [][(last'.op = "set_instruction" /\ last'.raised)
          => /\ order_bias' = order_bias
             /\ input_state'.instruction = input_state.instruction
             /\ ai'.order_bias = ai.order_bias]_vars

\* A name was rejected while the instruction in force was "defensive".
C9_Witness ==
    /\ last.op = "set_instruction"
    /\ last.raised
    /\ input_state.instruction = S_defensive
    /\ ai.order_bias = bias_from_instruction(S_defensive).bias

\* C10: while the invincibility timer is active (invincible > 0), the calls
\* of Player.take_damage, those of collision resolution included, leave the
\* player's hp unchanged.  A frame changes invincible only before it resolves
\* collisions, so the timer's value at the calls is its value after the step.
C10_InvincibleNoDamage ==
    [][player'.invincible > 0 => player'.stats.hp = player.stats.hp]_vars

\* Collision resolution has called take_damage, more than once, for hostile
\* projectiles hitting the player while the timer was active.
C10_Witness ==
    /\ last.op = "frame"
    /\ last.out.player_hits > 1
    /\ player.invincible > 0

\* The four action methods of the Player.
ActionMethods == {"shoot", "strong_attack", "step", "use_special"}

\* The precondition of the method does not hold for the player p.
Blocked(p, method) ==
    CASE method = "shoot" -> p.shot_timer > 0
      [] method = "strong_attack" ->
            p.strong_timer > 0 \/ p.stats.energy < 35 * Milli
      [] method = "step" -> p.step_cooldown > 0
      [] method = "use_special" -> p.stats.special < p.stats.max_special
      [] OTHER -> FALSE

\* The method Game.execute_action calls for an action, "none" when it calls
\* none of the four.
MethodOf(action) ==
    CASE action = NORMAL_SHOT -> "shoot"
      [] action = STRONG_ATTACK -> "strong_attack"
      [] action = STEP -> "step"
      [] action = SPECIAL -> "use_special"
      [] OTHER -> "none"

\* C11: an action whose precondition does not hold is a no-op: shoot with
\* shot_timer > 0, strong_attack with strong_timer > 0 or energy < 35, step
\* with step_cooldown > 0 and use_special with special < max return no
\* projectiles and leave every field of the player unchanged; and
\* Game.execute_action then adds no projectile to player_bullets.
C11_BlockedIsNoOp ==
    [][/\ (last'.op \in ActionMethods /\ Blocked(player, last'.op))
            => (player' = player /\ last'.out = << >>)
       /\ (last'.op = "execute_action" /\ Blocked(player, MethodOf(last'.arg)))
            => /\ player' = player
               /\ last'.out = << >>
               /\ player_bullets' = player_bullets]_vars

\* strong_attack was called with the strong timer run out and the energy
\* below 35, and returned nothing.
C11_Witness ==
    /\ last.op = "strong_attack"
    /\ last.out = << >>
    /\ player.strong_timer <= 0
    /\ player.stats.energy < 35 * Milli

\* The seven velocities vs fan out from -45 to +45 degrees around straight
\* up at speed 420: each of length 420 (to a pixel per second), mirrored left
\* to right, the middle one straight up, the outer ones at 45 degrees
\* (|x| = |y|), the next ones at 30 degrees (|x| = 420 / 2), each further to
\* the right than the one before.
IsFan(vs) ==
    /\ Len(vs) = 7
    /\ \A i \in 1..7 :
          /\ Abs(Length(vs[i]) - 420 * Milli) <= Milli
          /\ vs[i].y < 0
          /\ vs[8 - i] = Vec(-vs[i].x, vs[i].y)
    /\ \A i \in 1..6 : vs[i].x < vs[i + 1].x
    /\ vs[4] = Vec(0, -420 * Milli)
    /\ vs[7].x = -vs[7].y
    /\ vs[6].x = 210 * Milli

BiasEntries ==
    {<<S_aggressive, NORMAL_SHOT, 25>>, <<S_aggressive, STRONG_ATTACK, 35>>,
     <<S_aggressive, APPROACH, 15>>,
     <<S_defensive, EVADE, 30>>, <<S_defensive, KEEP_DISTANCE, 25>>,
     <<S_defensive, STEP, 20>>,
     <<S_focus, NORMAL_SHOT, 10>>, <<S_focus, STRONG_ATTACK, 10>>,
     <<S_special, SPECIAL, 45>>}

\* C13: for each vocabulary name, bias_from_instruction returns an OrderBias
\* with an entry for all seven actions, whose non-zero entries are exactly:
\* aggressive -> NormalShot +25, StrongAttack +35, Approach +15; defensive ->
\* Evade +30, KeepDistance +25, Step +20; focus -> NormalShot +10 and
\* StrongAttack +10; special -> Special +45; balanced -> none.
C13_BiasTable ==
    (last.op = "set_instruction" /\ last.arg \in Vocabulary)
        => /\ ~last.raised
           /\ DOMAIN order_bias = Action
           /\ \A a \in Action :
                 \/ /\ order_bias[a] = 0
                    /\ \A v \in 1..100 : <<last.arg, a, v>> \notin BiasEntries
                 \/ /\ order_bias[a] # 0
                    /\ \E v \in 1..100 :
                          /\ <<last.arg, a, v>> \in BiasEntries
                          /\ order_bias[a] = v * Milli

\* The instruction "defensive" was looked up and its table is in force.
C13_Witness ==
    /\ last.op = "set_instruction"
    /\ last.arg = S_defensive
    /\ order_bias[STEP] = 20 * Milli
    /\ order_bias[NORMAL_SHOT] = 0

\* C14 as stated: the player's position is inside the arena rectangle
\* (30 <= x <= 610, 40 <= y <= 440) in every state reached at the end of a
\* frame of Game.update, after any sequence of frames and chosen actions.
C14_InsideArena ==
    last.op = "frame"
        => /\ 30 * Milli <= player.position.x /\ player.position.x <= 610 * Milli
           /\ 40 * Milli <= player.position.y /\ player.position.y <= 440 * Milli

\* C15: at the end of every frame the decision timer is strictly positive,
\* and between two consecutive invocations of think the accumulated dt is at
\* least 0.05 s.  A frame invokes think at most once: Game.update has one
\* call of it, outside any loop, and hist records it once per frame.
C15_DecisionTimer ==
    last.op = "frame"
        => /\ ai_timer > 0
           /\ hist.gap["think"] = -1 \/ hist.gap["think"] >= 50
           /\ last.out.decided <=> hist.elapsed["think"] = 0

\* think has run in this frame and in an earlier one, with a frame without a
\* decision between the two.
C15_Witness ==
    /\ last.op = "frame"
    /\ last.out.decided
    /\ hist.gap["think"] > 600
    /\ hist.gap["think"] < SinceCap

\* The places in the collection bullets of the projectiles that are inside
\* the rectangle of the actor at position with the given radius.
HitPlaces(bullets, position, radius) ==
    {i \in 1..Len(bullets) : collidepoint(Rect(position, radius), bullets[i].position)}

RECURSIVE DamageAt(_, _)
\* The sum of the damage of the projectiles of bullets at the given places.
DamageAt(bullets, places) ==
    IF places = {} THEN 0
    ELSE LET i == CHOOSE j \in places : TRUE
         IN  bullets[i].damage + DamageAt(bullets, places \ {i})

\* The projectiles of bullets outside the given places, in order.
Outside(bullets, places) ==
    LET kept(n) == Cardinality({j \in 1..n : j \notin places})
    IN  [k \in 1..kept(Len(bullets)) |->
            bullets[CHOOSE i \in 1..Len(bullets) : i \notin places /\ kept(i) = k]]

\* C16: in collision resolution every projectile scores at most one hit: a
\* friendly projectile inside the enemy's rectangle calls Enemy.take_damage
\* exactly once and is absent from the friendly collection afterwards, a
\* hostile one inside the player's rectangle calls Player.take_damage exactly
\* once and is absent from the hostile collection afterwards, and as many
\* projectiles are removed as there are hits, also when several projectiles
\* have equal field values.
C16_OneHitEach ==
    [][last'.op = "handle_collisions"
          => LET onEnemy == HitPlaces(player_bullets, enemy.position, enemy.radius)
                 onPlayer == HitPlaces(enemy_bullets, player.position, player.radius)
             IN  /\ last'.out.enemy_hits = Cardinality(onEnemy)
                 /\ last'.out.player_hits = Cardinality(onPlayer)
                 /\ enemy'.hp = Max(0, enemy.hp - DamageAt(player_bullets, onEnemy))
                 /\ player'.stats.hp =
                        Max(0, player.stats.hp - DamageAt(enemy_bullets, onPlayer))
                 /\ player_bullets' = Outside(player_bullets, onEnemy)
                 /\ enemy_bullets' = Outside(enemy_bullets, onPlayer)
                 /\ Len(player_bullets') = Len(player_bullets) - last'.out.enemy_hits
                 /\ Len(enemy_bullets') = Len(enemy_bullets) - last'.out.player_hits
                 /\ HitPlaces(player_bullets', enemy.position, enemy.radius) = {}
                 /\ HitPlaces(enemy_bullets', player.position, player.radius) = {}]_vars

\* Two friendly projectiles of equal field values have hit the enemy, with a
\* third projectile that missed between them in the collection, and two equal
\* hostile ones have hit the player.
C16_Witness ==
    /\ last.op = "handle_collisions"
    /\ Len(last.arg.friendly) = 3
    /\ last.arg.friendly[1] = last.arg.friendly[3]
    /\ last.arg.friendly[2] # last.arg.friendly[1]
    /\ last.out.enemy_hits = 2
    /\ player_bullets = <<last.arg.friendly[2]>>
    /\ enemy.hp = (1200 - 12) * Milli
    /\ last.out.player_hits = 2
    /\ player.stats.hp = (100 - 24) * Milli

\* C17: provided frames keep running with dt bounded below by a positive
\* constant, every projectile in the friendly or the hostile collection is
\* eventually removed from it: with no projectile added, both collections
\* are eventually empty.
C17_ShortLived == <>(player_bullets = << >> /\ enemy_bullets = << >>)

\* The last friendly projectile of a volley has just been culled while
\* hostile projectiles are still in flight.
C17_Witness ==
    /\ last.op = "update_bullets"
    /\ last.out.friendly_culled > 0
    /\ player_bullets = << >>
    /\ enemy_bullets # << >>

\* The cooldown each timed player action sets, in milliseconds.
CooldownOf(method) ==
    CASE method = "shoot" -> 180
      [] method = "strong_attack" -> 900
      [] method = "step" -> 1600

\* C18: between two calls of shoot that each emit a projectile the dt
\* accumulated by Player.update is at least 0.18 s, between two strong_attack
\* calls that each emit projectiles at least 0.9 s, and between two step
\* calls that each displace the player at least 1.6 s.
C18_CooldownSpacing ==
    \A method \in {"shoot", "strong_attack", "step"} :
        hist.gap[method] = -1 \/ hist.gap[method] >= CooldownOf(method)

\* A second shot was emitted 0.2 s of updates after the first.
C18_Witness ==
    /\ last.op = "shoot"
    /\ last.out # << >>
    /\ hist.gap["shoot"] = 200

\* C19: think leaves the context, the personality, the order bias and the
\* base weight table unchanged; build_context leaves the actors and both
\* projectile collections unchanged; set_personality and set_order_bias
\* change only the field they name and do not reset the random source.
C19_ReadersOnlyRead ==
    [][/\ last'.op = "think"
            => /\ last'.out.ctx = last'.arg.ctx
               /\ ai' = ai
               /\ order_bias' = order_bias
               /\ base_weights' = base_weights
               /\ <<player, enemy, player_bullets, enemy_bullets>>'
                    = <<player, enemy, player_bullets, enemy_bullets>>
       /\ last'.op = "build_context"
            => /\ <<player, enemy, player_bullets, enemy_bullets>>'
                    = <<player, enemy, player_bullets, enemy_bullets>>
               /\ <<ai, order_bias, base_weights>>' = <<ai, order_bias, base_weights>>
       /\ last'.op = "set_personality"
            => ai' = [ai EXCEPT !.personality = last'.arg]
       /\ last'.op = "set_order_bias"
            => ai' = [ai EXCEPT !.order_bias = last'.arg]]_vars

\* think has run, with weights other than the table's, on a context built
\* with hostile projectiles around, after the personality and the
\* instruction were both changed.
C19_Witness ==
    /\ last.op = "think"
    /\ last.out.weights # base_weights
    /\ last.arg.ctx.threat_level > 0
    /\ ai.personality = SKITTISH
    /\ ai.order_bias = bias_from_instruction(S_defensive).bias
    /\ ai.rng_seeds = 1

\* The statements of a frame in the order of the code, with the one that
\* comes before each.
Before(op) ==
    CASE op = "frame.decide" -> "frame.actors"
      [] op = "frame.bullets" -> "frame.decide"
      [] op = "frame.collisions" -> "frame.bullets"
      [] op = "frame.damping" -> "frame.collisions"
      [] op = "frame.draw" -> "frame.damping"
      [] OTHER -> "none"

\* The actors and the two collections.
world == <<player, enemy, player_bullets, enemy_bullets>>

\* C20 as stated: within every frame all actor and world state updates (the
\* player update, the enemy update, the executed action, the projectile
\* advance and culling, and any other change of actor state) happen before
\* collision resolution, and collision resolution happens before rendering:
\* once collisions are resolved, nothing in the frame changes an actor or a
\* collection.
C20_Original ==
    [][/\ last'.op \in {"frame.decide", "frame.bullets", "frame.collisions",
                        "frame.damping", "frame.draw"}
            => last.op = Before(last'.op)
       /\ last'.op \in {"frame.damping", "frame.draw"} => world' = world]_vars

\* C20 amended: the statements of a frame run in the order actors, decision,
\* projectiles, collision resolution, damping, rendering; after collision
\* resolution the one change of actor state is the damping of the player's
\* velocity (game.py:94), and rendering changes nothing.
C20_Amended ==
    [][/\ last'.op \in {"frame.decide", "frame.bullets", "frame.collisions",
                        "frame.damping", "frame.draw"}
            => last.op = Before(last'.op)
       /\ last'.op = "frame.damping"
            => /\ [player' EXCEPT !.velocity = player.velocity] = player
               /\ <<enemy, player_bullets, enemy_bullets>>'
                    = <<enemy, player_bullets, enemy_bullets>>
       /\ last'.op = "frame.draw" => world' = world]_vars

\* A frame has been rendered in which a projectile hit the enemy and the
\* player's velocity, not zero, was damped after that.
C20_Witness ==
    /\ last.op = "frame.draw"
    /\ player.velocity # Vec(0, 0)
    /\ enemy.hp < 1200 * Milli

\* C21: after any sequence of set_instruction calls, accepted or rejected,
\* interleaved with frames and personality changes, the instruction name
\* recorded in input_state is one bias_from_instruction accepts, the
\* controller's order bias is the table bias_from_instruction builds for
\* that name, the table has an entry for each of the seven actions, and a
\* frame (and so think) leaves the controller's order bias as it was.
C21_BiasFollowsInstruction ==
    /\ [](/\ bias_from_instruction(input_state.instruction).ok
          /\ ai.order_bias = bias_from_instruction(input_state.instruction).bias
          /\ DOMAIN ai.order_bias = Action
          /\ Cardinality(Action) = 7)
    /\ [][last'.op = "frame" => ai'.order_bias = ai.order_bias]_vars

\* An instruction was rejected after one written in capitals had been
\* accepted, the personality had been changed and a frame had run in which
\* think decided.
C21_Witness ==
    /\ last.op = "set_instruction"
    /\ last.raised
    /\ input_state.instruction = S_AGGRESSIVE_upper
    /\ ai.order_bias = bias_from_instruction(S_aggressive).bias
    /\ ai.personality = PRUDENT
    /\ ncalls = 1
    /\ hist.elapsed["think"] >= 0

=============================================================================
